---- MODULE Spec2Model ----
(***************************************************************************)
(* Model of the conversation extractors of whisper-segment-extractor.      *)
(*                                                                         *)
(* Times are integers counting tenths of a second, so that 118.9 s is     *)
(* 1189 and 5 s is 50.  A text is a sequence of Unicode code points.       *)
(* A Python value that may be None is a sequence of length 0 or 1.         *)
(***************************************************************************)
EXTENDS Integers, Sequences, FiniteSets, TLC

VARIABLES
    impl,                     \* which extractor runs: "smart", "fast", "batch", "conv"
    segments_ko,              \* the Korean transcription the anchor is searched in
    search_start_time,        \* search_start_time / start_time_hint
    i,                        \* position of the anchor loops (1-based)
    anchor_end_time,          \* None until an anchor phrase is found
    segments,                 \* result_en['segments'] after the offset correction
    ina_segments,             \* what self.segmenter(audio_path) yields for the file
    idx,                      \* position of the for loop over segments (1-based)
    english_start_time,
    english_end_time,
    last_end_time,
    consecutive_valid,
    first_conversation_found,
    walk_exit,                \* how the for loop over segments was left
    pc,                       \* position inside the per-file operation
    outcome,                  \* what the call returned, or that it raised
    extracted,                \* the slice audio_full[start_ms:end_ms] that was exported
    is_english,               \* the calls of _is_english_segment so far: text and verdict
    script_text,              \* the lines of the script that was written, None if none
    HAS_INA,                  \* whether inaSpeechSegmenter could be imported
    mp3_files,                \* the files process_folder found, in glob order
    results,                  \* the per-file entries of the folder run so far
    audio_len,                \* len(audio) of the file that is loaded
    target_segments,          \* extract_music_segment: the intervals at or after the anchor
    extract_start,            \* extract_music_segment: None until line 126
    extract_end,
    looking_for_content,
    self_transcription,       \* ConversationExtractor.transcription
    calls                     \* the calls on one ConversationExtractor: method, ret, exported

anchorVars == <<impl, segments_ko, search_start_time, i>>

walkVars == <<segments, ina_segments, idx, english_start_time, english_end_time,
              last_end_time, consecutive_valid, first_conversation_found,
              walk_exit, is_english>>

folderVars == <<HAS_INA, mp3_files, results>>

batchVars == <<audio_len, target_segments, extract_start, extract_end,
               looking_for_content>>

convVars == <<self_transcription, calls>>

vars == <<anchorVars, anchor_end_time, walkVars, pc, outcome, extracted,
          script_text, folderVars, batchVars, convVars>>

----------------------------------------------------------------------------
\* Units and Python's None

None == <<>>

Some(v) == <<v>>

\* how a call ended: the exception it raised, or the tuple it returned
Pending == [raised |-> "", ret |-> <<>>]

Raised(e) == [raised |-> e, ret |-> <<>>]

Returned(r) == [raised |-> "", ret |-> r]

Min(S) == CHOOSE x \in S : \A y \in S : x <= y

Max(S) == CHOOSE x \in S : \A y \in S : x >= y

----------------------------------------------------------------------------
\* Text primitives (str.strip, str.split, str.lower, the in operator)

\* the code points for which str.isspace() holds
Whitespace == {9, 10, 11, 12, 13, 28, 29, 30, 31, 32, 133, 160, 5760,
               8192, 8193, 8194, 8195, 8196, 8197, 8198, 8199, 8200, 8201,
               8202, 8232, 8233, 8239, 8287, 12288}

IsSpace(c) == c \in Whitespace

\* text.strip()
Strip(t) ==
    LET keep == {k \in 1..Len(t) : ~IsSpace(t[k])}
    IN  IF keep = {} THEN <<>> ELSE SubSeq(t, Min(keep), Max(keep))

\* text.split(): the maximal runs of non-whitespace, in order
RECURSIVE Split(_)
Split(t) ==
    LET keep == {k \in 1..Len(t) : ~IsSpace(t[k])}
    IN  IF keep = {} THEN <<>>
        ELSE LET first == Min(keep)
                 stops == {k \in first..Len(t) : IsSpace(t[k])}
                 last  == IF stops = {} THEN Len(t) ELSE Min(stops) - 1
             IN  <<SubSeq(t, first, last)>> \o Split(SubSeq(t, last + 1, Len(t)))

\* one character of str.lower(): A-Z, and the Kelvin sign U+212A, which
\* lowers to k; no other character of the modelled texts has a lower case
LowerChar(c) ==
    IF c >= 65 /\ c <= 90 THEN c + 32
    ELSE IF c = 8490 THEN 107
    ELSE c

\* text.lower()
Lower(t) == [k \in 1..Len(t) |-> LowerChar(t[k])]

\* p in t
Contains(p, t) ==
    \E k \in 0..(Len(t) - Len(p)) : SubSeq(t, k + 1, k + Len(p)) = p

\* '가' <= c <= '힣'
IsHangul(c) == c >= 44032 /\ c <= 55203

\* any('가' <= c <= '힣' for c in text)
is_korean(t) == \E k \in 1..Len(t) : IsHangul(t[k])

----------------------------------------------------------------------------
\* SmartConversationExtractor._is_english_segment

\* a denylist with the Latin pattern 'hello' at its end
korean_transliteration_patterns_Latin == <<
    <<51077, 50689, 51089>>, <<53440, 51076>>, <<107, 103>>,
    <<104, 101, 108, 108, 111>> >>

korean_transliteration_patterns == <<
    <<51077, 50689, 51089>>,
    <<53440, 51076>>,
    <<54056, 53556>>,
    <<47564, 45208, 48380, 44620, 50836>>,
    <<50672, 44592>>,
    <<50672, 49845>>,
    <<51069, 50612, 48380, 44172, 50836>>,
    <<51204, 52404, 45824, 54868>>,
    <<46307, 44192, 49845, 45768, 45796>>,
    <<51452, 49464, 50836>>,
    <<44536, 47111, 51424>>,
    <<50668, 47084, 48516>>,
    <<51060, 44144>>,
    <<54876, 50857>>,
    <<44040, 44172, 50836>>,
    <<51320, 50629, 54664, 50612>>,
    <<48784, 50612>>,
    <<54028, 50868, 46300>>,
    <<44060, 50900>>,
    <<107, 103>> >>

min_length == 12

min_word_count == 2

\* a text as long as the least length is rejected
is_english_segment_with_LengthInclusive(raw, least_length, least_words) ==
    LET text == Strip(raw)
    IN  IF text = <<>> THEN FALSE
        ELSE IF is_korean(text) THEN FALSE
        ELSE IF Len(text) <= least_length THEN FALSE
        ELSE IF \E n \in 1..Len(korean_transliteration_patterns) :
                    Contains(Lower(korean_transliteration_patterns[n]), Lower(text))
             THEN FALSE
        ELSE IF Len(Split(text)) < least_words THEN FALSE
        ELSE TRUE

\* the test for an empty text left out
is_english_segment_with_NoEmptyTest(raw, least_length, least_words) ==
    LET text == Strip(raw)
    IN  IF is_korean(text) THEN FALSE
        ELSE IF Len(text) < least_length THEN FALSE
        ELSE IF \E n \in 1..Len(korean_transliteration_patterns) :
                    Contains(Lower(korean_transliteration_patterns[n]), Lower(text))
             THEN FALSE
        ELSE IF Len(Split(text)) < least_words THEN FALSE
        ELSE TRUE

\* lines 79-117, with the two numbers the code compares against (12 at line
\* 91, 2 at line 111) as parameters
is_english_segment_with(raw, least_length, least_words) ==
    LET text == Strip(raw)
    IN  IF text = <<>> THEN FALSE
        ELSE IF is_korean(text) THEN FALSE
        ELSE IF Len(text) < least_length THEN FALSE
        ELSE IF \E n \in 1..Len(korean_transliteration_patterns) :
                    Contains(Lower(korean_transliteration_patterns[n]), Lower(text))
             THEN FALSE
        ELSE IF Len(Split(text)) < least_words THEN FALSE
        ELSE TRUE

\* the verdict depends on the state of the walk
is_english_segment_Stateful(raw) ==
    is_english_segment_with(raw, IF first_conversation_found THEN 100 ELSE min_length,
                            min_word_count)

is_english_segment(raw) == is_english_segment_with(raw, min_length, min_word_count)

----------------------------------------------------------------------------
\* Transcripts the walk is run on

\* " Hello, how are you?"
TextEnglish == <<32, 72, 101, 108, 108, 111, 44, 32, 104, 111, 119, 32, 97,
                 114, 101, 32, 121, 111, 117, 63>>

\* a Korean remark in Hangul, U+C790 U+0020 U+C5EC U+B7EC U+BD84, after a space
TextKorean == <<32, 51088, 32, 50668, 47084, 48516>>

\* " Okay."
TextNoise == <<32, 79, 107, 97, 121, 46>>

Seg(s, e, t) == [start |-> s, end |-> e, text |-> t]

\* a labelled interval (label, start, end) of inaSpeechSegmenter
Lab(l, s, e) == [label |-> l, start |-> s, end |-> e]

\* thresholds of the walk
timeout == 600

gap_threshold == 150

confirmed_gap == 50

first_conversation_min_count == 3

\* the second transcription starts 5 s before the anchor
english_lead == 50

\* longest generated transcript
MaxSegs == 4

\* the three kinds of generated segment: its text, how long it lasts and how
\* far after the end of the segment before it it may start (at 5 s and 15 s,
\* and 0.1 s past each)
Kinds == { [text |-> TextEnglish, dur |-> 20, gaps |-> {50, 151}],
           [text |-> TextKorean,  dur |-> 10, gaps |-> {50, 151}],
           [text |-> TextNoise,   dur |-> 0,  gaps |-> {50, 51, 150, 151}] }

\* distance of the first segment from the start of the second transcription
FirstGaps == {0, 50, 600}

\* anchor of the generated transcripts: 5.0 s
FamilyAnchor == english_lead

\* anchor at 0, content at [1,5], [6,9], [10,14], Korean after a 20 s gap
CleanTranscript ==
    << Seg(10, 50, TextEnglish), Seg(60, 90, TextEnglish),
       Seg(100, 140, TextEnglish), Seg(340, 350, TextKorean) >>

\* anchor at 100.0, content at [105,108], [109,112], [113,118], Korean after
\* a 20 s gap
EndToEndTranscript ==
    << Seg(1050, 1080, TextEnglish), Seg(1090, 1120, TextEnglish),
       Seg(1130, 1180, TextEnglish), Seg(1380, 1390, TextKorean) >>

\* music interval [104.5, 118.9]
EndToEndLabels == << Lab("music", 1045, 1189) >>

\* label sequences tried with the end-to-end transcript: none, the music of
\* the scenario, music ending 2 s and 30 s after 118.0, music ending 12 s
\* before it, and speech only
LabelPool ==
    { <<>>,
      EndToEndLabels,
      << Lab("music", 1045, 1200) >>,
      << Lab("music", 1045, 1480) >>,
      << Lab("music", 1045, 1060) >>,
      << Lab("male", 1045, 1189) >> }

\* a single content segment whose start equals its end
ZeroLengthTranscript == << Seg(60, 60, TextEnglish) >>

\* anchor at 5.0: Korean text ending at the anchor, content at [5,7], a
\* rejected text at 7.0 sharp, Korean text 15.1 s later
TouchingTranscript ==
    << Seg(40, 50, TextKorean), Seg(50, 70, TextEnglish),
       Seg(70, 70, TextNoise), Seg(221, 231, TextKorean) >>

\* anchor at 5.0: two content segments, a rejected text 5 s after them, two
\* more content segments, a rejected text 7 s after them
InterruptedTranscript ==
    << Seg(50, 70, TextEnglish), Seg(120, 140, TextEnglish),
       Seg(190, 190, TextNoise), Seg(240, 260, TextEnglish),
       Seg(310, 330, TextEnglish), Seg(400, 400, TextNoise) >>

\* anchor at 5.0: three content segments, a rejected text 5 s after them,
\* one more content segment
ResumedTranscript ==
    << Seg(50, 70, TextEnglish), Seg(120, 140, TextEnglish),
       Seg(190, 210, TextEnglish), Seg(260, 260, TextNoise),
       Seg(310, 330, TextEnglish) >>

\* anchor at 5.0: content that starts before the anchor and ends after it,
\* content from the anchor on, content that ends before the content before
\* it, content after 22 s without any text
OverlappingTranscript ==
    << Seg(40, 60, TextEnglish), Seg(50, 90, TextEnglish),
       Seg(60, 80, TextEnglish), Seg(300, 320, TextEnglish) >>

\* what the second transcription starts from: nothing transcribed yet after
\* an anchor at 5.0 s, or one of the transcripts above
SeedInputs ==
    { [segments |-> <<>>, anchor |-> FamilyAnchor, labels |-> <<>>],
      [segments |-> CleanTranscript, anchor |-> 0, labels |-> <<>>],
      [segments |-> ZeroLengthTranscript, anchor |-> FamilyAnchor, labels |-> <<>>],
      [segments |-> TouchingTranscript, anchor |-> FamilyAnchor, labels |-> <<>>],
      [segments |-> InterruptedTranscript, anchor |-> FamilyAnchor, labels |-> <<>>],
      [segments |-> ResumedTranscript, anchor |-> FamilyAnchor, labels |-> <<>>],
      [segments |-> OverlappingTranscript, anchor |-> FamilyAnchor, labels |-> <<>>] }
    \cup { [segments |-> EndToEndTranscript, anchor |-> 1000, labels |-> l] :
             l \in LabelPool }

----------------------------------------------------------------------------
\* SmartConversationExtractor.find_anchor_and_extract_smart, from the second
\* transcription on

Init ==
    /\ \E inp \in SeedInputs :
          /\ segments = inp.segments
          /\ anchor_end_time = Some(inp.anchor)
          /\ ina_segments = inp.labels
          /\ last_end_time = inp.anchor
    /\ impl = "smart"
    /\ segments_ko = <<>>
    /\ search_start_time = 0
    /\ i = 1
    /\ idx = 1
    /\ english_start_time = None
    /\ english_end_time = None
    /\ consecutive_valid = 0
    /\ first_conversation_found = FALSE
    /\ walk_exit = "running"
    /\ pc = "transcribe_en"
    /\ outcome = Pending
    /\ extracted = None
    /\ is_english = <<>>
    /\ script_text = None
    /\ HAS_INA = TRUE
    /\ mp3_files = <<>>
    /\ results = <<>>
    /\ audio_len = 0
    /\ target_segments = <<>>
    /\ extract_start = None
    /\ extract_end = None
    /\ looking_for_content = TRUE
    /\ self_transcription = None
    /\ calls = <<>>

\* line 215: english_start
english_start(search_start, anchor) == Max({search_start, anchor - english_lead})

\* lines 223-236: the transcription yields one more segment, already moved by
\* english_start; segments follow one another in time
TranscribeSegment ==
    /\ pc = "transcribe_en"
    /\ Len(segments) < MaxSegs
    /\ \E k \in Kinds :
          \E g \in (IF segments = <<>> THEN FirstGaps ELSE k.gaps) :
             LET from == IF segments = <<>>
                         THEN english_start(search_start_time, anchor_end_time[1])
                         ELSE segments[Len(segments)].end
             IN  segments' = Append(segments, Seg(from + g, from + g + k.dur, k.text))
    /\ UNCHANGED <<anchorVars, anchor_end_time, ina_segments, idx,
                   english_start_time, english_end_time, last_end_time,
                   consecutive_valid, first_conversation_found, walk_exit,
                   is_english, pc, outcome, extracted, script_text, folderVars, batchVars, convVars>>

\* line 246: the transcription is complete, the walk starts
TranscribeDone ==
    /\ pc = "transcribe_en"
    /\ pc' = "walk"
    /\ UNCHANGED <<anchorVars, anchor_end_time, walkVars, outcome, extracted, script_text, folderVars, batchVars, convVars>>

\* a segment that starts exactly at the anchor is skipped
AfterAnchor_Strict(seg_start, anchor) == seg_start > anchor

\* line 268: only segments at or after the anchor are looked at
AfterAnchor(seg_start, anchor) == seg_start >= anchor

\* the timeout comparison inclusive: a segment that starts exactly at the
\* timeout ends the walk
TimedOut_Inclusive(start_time, seg_start, anchor) ==
    start_time = None /\ seg_start >= anchor + timeout

\* the test for "no content yet" inverted
TimedOut_Inverted(start_time, seg_start, anchor) ==
    start_time # None /\ seg_start > anchor + timeout

\* line 270: no content yet and the segment starts after the timeout
TimedOut(start_time, seg_start, anchor) ==
    start_time = None /\ seg_start > anchor + timeout

\* the guard "is None" forgotten: every content segment moves the start
WindowStart_Unguarded(start_time, seg_start) ==
    Some(seg_start)

\* lines 278-279: the window start is set by the first content segment only
WindowStart(start_time, seg_start) ==
    IF start_time = None THEN Some(seg_start) ELSE start_time

\* the flag follows the counter, so a reset of the counter clears it
Confirmed_FollowsCounter(found, count) ==
    count >= first_conversation_min_count

\* the window end never moves back
WindowEnd_Monotone(end_time, seg_end) ==
    IF end_time # None /\ end_time[1] > seg_end THEN end_time ELSE Some(seg_end)

\* line 283: the window end is the end of the content segment
WindowEnd(end_time, seg_end) == Some(seg_end)

\* lines 289-290
Confirmed(found, count) ==
    found \/ count >= first_conversation_min_count

\* both comparisons inclusive: a gap equal to the threshold ends the walk
GapBreak_Inclusive(found, start_time, seg_start, last_end) ==
    IF found /\ start_time # None /\ seg_start - last_end >= confirmed_gap
    THEN "gap_after_first_set"
    ELSE IF start_time # None /\ ~found /\ seg_start - last_end >= gap_threshold
    THEN "gap"
    ELSE "none"

\* the gap is measured from the end of the segment before, content or not
GapBreak_FromPrevious(found, start_time, seg_start, last_end) ==
    LET previous == IF idx > 1 THEN segments[idx - 1].end ELSE last_end
    IN  IF found /\ start_time # None /\ seg_start - previous > confirmed_gap
        THEN "gap_after_first_set"
        ELSE IF start_time # None /\ ~found /\ seg_start - previous > gap_threshold
        THEN "gap"
        ELSE "none"

\* lines 296-308: which break, if any, a non-content segment takes
GapBreak(found, start_time, seg_start, last_end) ==
    IF found /\ start_time # None /\ seg_start - last_end > confirmed_gap
    THEN "gap_after_first_set"
    ELSE IF start_time # None /\ ~found /\ seg_start - last_end > gap_threshold
    THEN "gap"
    ELSE "none"

\* the break is noted but the loop goes on with the next segment
Break_Continues(why) ==
    /\ walk_exit' = why
    /\ pc' = pc
    /\ idx' = idx + 1
    /\ UNCHANGED <<english_start_time, english_end_time, last_end_time,
                   consecutive_valid, first_conversation_found>>

Break(why) ==
    /\ walk_exit' = why
    /\ pc' = "after_walk"
    /\ UNCHANGED <<idx, english_start_time, english_end_time, last_end_time,
                   consecutive_valid, first_conversation_found>>

\* line 274: one call of _is_english_segment, the text it was given and
\* what it returned
Call(text, verdict) == [text |-> text, verdict |-> verdict]

\* one iteration of the for loop, lines 262-311
WalkSegment ==
    /\ pc = "walk"
    /\ idx <= Len(segments)
    /\ LET seg_start == segments[idx].start
           seg_end   == segments[idx].end
           text      == Strip(segments[idx].text)
       IN  IF AfterAnchor(seg_start, anchor_end_time[1])
           THEN IF TimedOut(english_start_time, seg_start, anchor_end_time[1])
                THEN Break("timeout") /\ UNCHANGED is_english
                ELSE IF is_english_segment(text)
                THEN /\ is_english' = Append(is_english, Call(text, TRUE))
                     /\ english_start_time' = WindowStart(english_start_time, seg_start)
                     /\ english_end_time' = WindowEnd(english_end_time, seg_end)
                     /\ last_end_time' = seg_end
                     /\ consecutive_valid' = consecutive_valid + 1
                     /\ first_conversation_found' =
                            Confirmed(first_conversation_found, consecutive_valid + 1)
                     /\ idx' = idx + 1
                     /\ UNCHANGED <<walk_exit, pc>>
                ELSE LET why == GapBreak(first_conversation_found,
                                         english_start_time, seg_start, last_end_time)
                     IN  IF why # "none"
                         THEN /\ Break(why)
                              /\ is_english' = Append(is_english, Call(text, FALSE))
                         ELSE /\ is_english' = Append(is_english, Call(text, FALSE))
                              /\ consecutive_valid' = 0
                              /\ idx' = idx + 1
                              /\ UNCHANGED <<english_start_time, english_end_time,
                                             last_end_time, first_conversation_found,
                                             walk_exit, pc>>
           ELSE /\ idx' = idx + 1
                /\ UNCHANGED <<english_start_time, english_end_time, last_end_time,
                               consecutive_valid, first_conversation_found,
                               walk_exit, is_english, pc>>
    /\ UNCHANGED <<anchorVars, anchor_end_time, segments, ina_segments,
                   outcome, extracted, script_text, folderVars, batchVars, convVars>>

\* the for loop runs out of segments
WalkExhausted ==
    /\ pc = "walk"
    /\ idx > Len(segments)
    /\ walk_exit' = "exhausted"
    /\ pc' = "after_walk"
    /\ UNCHANGED <<anchorVars, anchor_end_time, segments, ina_segments, idx,
                   english_start_time, english_end_time, last_end_time,
                   consecutive_valid, first_conversation_found, is_english,
                   outcome, extracted, script_text, folderVars, batchVars, convVars>>

\* both comparisons strict: a segment that only touches the window is left out
RECURSIVE extract_script_text_Strict(_, _, _)
extract_script_text_Strict(transcription, start_time, end_time) ==
    IF transcription = <<>> THEN <<>>
    ELSE LET segment == Head(transcription)
             rest == extract_script_text_Strict(Tail(transcription), start_time,
                                                end_time)
         IN  IF segment.start < end_time /\ segment.end > start_time
             THEN <<Seg(segment.start, segment.end, Strip(segment.text))>> \o rest
             ELSE rest

\* extract_script_text, lines 44-68: one line, with the stripped text, for
\* every segment that overlaps [start_time, end_time], in transcript order
RECURSIVE extract_script_text(_, _, _)
extract_script_text(transcription, start_time, end_time) ==
    IF transcription = <<>> THEN <<>>
    ELSE LET segment == Head(transcription)
             rest == extract_script_text(Tail(transcription), start_time, end_time)
         IN  IF segment.start <= end_time /\ segment.end >= start_time
             THEN <<Seg(segment.start, segment.end, Strip(segment.text))>> \o rest
             ELSE rest

\* _extract_fixed, lines 569-612: the window it slices and what it returns
start_offset == 460

duration == 500

extract_fixed(anchor) ==
    [ret |-> <<TRUE, Some(anchor), Some("output_path")>>,
     window |-> [start |-> anchor + start_offset,
                 end |-> anchor + start_offset + duration]]

\* lines 315-317: no window.  The argument list of the call to _extract_fixed
\* reads the local variable result, which is assigned only at line 389, after
\* the return of line 365; the read raises UnboundLocalError before
\* _extract_fixed is entered.
FallbackOutcome == Raised("UnboundLocalError")

FallbackFixed ==
    /\ pc = "after_walk"
    /\ english_end_time = None \/ english_start_time = None
    /\ outcome' = FallbackOutcome
    /\ extracted' = None
    /\ pc' = "done"
    /\ UNCHANGED <<anchorVars, anchor_end_time, walkVars, script_text, folderVars, batchVars, convVars>>

\* a walk that was never confirmed exports the fixed window
ExtractSmart_ConfirmedOnly ==
    /\ pc = "after_walk"
    /\ ~(english_end_time = None \/ english_start_time = None)
    /\ extracted' = IF first_conversation_found
                    THEN Some([start |-> english_start_time[1],
                               end |-> english_end_time[1]])
                    ELSE Some(extract_fixed(anchor_end_time[1]).window)
    /\ script_text' = Some(extract_script_text(segments, english_start_time[1],
                                                 english_end_time[1]))
    /\ outcome' = Returned(<<TRUE, anchor_end_time, Some("output_path")>>)
    /\ pc' = "done"
    /\ UNCHANGED <<anchorVars, anchor_end_time, walkVars, folderVars, batchVars, convVars>>

\* lines 319-365: slice [extract_start, extract_end], export, return success
ExtractSmart ==
    /\ pc = "after_walk"
    /\ ~(english_end_time = None \/ english_start_time = None)
    /\ extracted' = Some([start |-> english_start_time[1],
                          end |-> english_end_time[1]])
    /\ script_text' = Some(extract_script_text(segments, english_start_time[1],
                                                 english_end_time[1]))
    /\ outcome' = Returned(<<TRUE, anchor_end_time, Some("output_path")>>)
    /\ pc' = "done"
    /\ UNCHANGED <<anchorVars, anchor_end_time, walkVars, folderVars, batchVars, convVars>>

Next ==
    \/ TranscribeSegment
    \/ TranscribeDone
    \/ WalkSegment
    \/ WalkExhausted
    \/ FallbackFixed
    \/ ExtractSmart

Spec == Init /\ [][Next]_vars

----------------------------------------------------------------------------
\* The anchor search of the four extractors

\* " jeonchedaehwa juseyo" in Hangul: U+C804 U+CCB4 U+B300 U+D654, a space,
\* U+C8FC U+C138 U+C694, after a leading space
TextAnchor == <<32, 51204, 52404, 45824, 54868, 32, 51452, 49464, 50836>>

\* " ja jeonche": U+C790, a space, U+C804 U+CCB4, after a leading space
TextSplitA == <<32, 51088, 32, 51204, 52404>>

\* " daehwa juseyo": U+B300 U+D654, a space, U+C8FC U+C138 U+C694, after a
\* leading space
TextSplitB == <<32, 45824, 54868, 32, 51452, 49464, 50836>>

\* " annyeonghaseyo": U+C548 U+B155 U+D558 U+C138 U+C694, after a leading space
TextOther == <<32, 50504, 45397, 54616, 49464, 50836>>

KoTexts == {TextAnchor, TextSplitA, TextSplitB, TextOther}

\* how long a generated Korean segment lasts; each starts where the one
\* before it ends
KoDurs == {0, 20}

\* longest generated Korean transcript
MaxKoSegs == 4

\* values of search_start_time / start_time_hint
SearchStarts == {0, 20}

Impls == {"smart", "fast", "batch", "conv"}

\* the default anchor_phrases of each extractor
PhrasesLong ==
    << <<51204, 52404, 45824, 54868, 32, 51452, 49464, 50836>>,
       <<51204, 52404, 45824, 54868>>,
       <<51204, 52404, 32, 45824, 54868>>,
       <<51204, 52404, 46104, 50612>>,
       <<51204, 52404, 32, 46104, 50612>> >>

PhrasesShort ==
    << <<51204, 52404, 45824, 54868, 32, 51452, 49464, 50836>>,
       <<51204, 52404, 45824, 54868>>,
       <<51204, 52404, 32, 45824, 54868>> >>

anchor_phrases(which) ==
    IF which \in {"smart", "fast"} THEN PhrasesLong ELSE PhrasesShort

\* for anchor in anchor_phrases: if anchor in text
AnchorIn(which, text) ==
    \E n \in 1..Len(anchor_phrases(which)) : Contains(anchor_phrases(which)[n], text)

\* Python's truth value of anchor_end_time: None and 0 are false
Truthy(opt) == opt # None /\ opt[1] # 0

InitAnchor ==
    /\ impl \in Impls
    /\ search_start_time \in (IF impl = "conv" THEN {0} ELSE SearchStarts)
    /\ segments_ko = <<>>
    /\ i = 1
    /\ anchor_end_time = None
    /\ segments = <<>>
    /\ ina_segments = <<>>
    /\ idx = 1
    /\ english_start_time = None
    /\ english_end_time = None
    /\ last_end_time = 0
    /\ consecutive_valid = 0
    /\ first_conversation_found = FALSE
    /\ walk_exit = "running"
    /\ pc = "transcribe_ko"
    /\ outcome = Pending
    /\ extracted = None
    /\ is_english = <<>>
    /\ script_text = None
    /\ HAS_INA = TRUE
    /\ mp3_files = <<>>
    /\ results = <<>>
    /\ audio_len = 0
    /\ target_segments = <<>>
    /\ extract_start = None
    /\ extract_end = None
    /\ looking_for_content = TRUE
    /\ self_transcription = None
    /\ calls = <<>>

\* model.transcribe(..., language='ko') yields one more segment.  The smart
\* extractor transcribes the audio from search_start_time on and adds
\* search_start_time to every time (smart_extract.py 143-153); the others
\* transcribe the whole file.
TranscribeKoSegment ==
    /\ pc = "transcribe_ko"
    /\ Len(segments_ko) < MaxKoSegs
    /\ \E d \in KoDurs, t \in KoTexts :
          LET from == IF segments_ko # <<>> THEN segments_ko[Len(segments_ko)].end
                      ELSE IF impl = "smart" THEN search_start_time
                      ELSE 0
          IN  segments_ko' = Append(segments_ko, Seg(from, from + d, t))
    /\ UNCHANGED <<impl, search_start_time, i, anchor_end_time, walkVars,
                   pc, outcome, extracted, script_text, folderVars, batchVars, convVars>>

TranscribeKoDone ==
    /\ pc = "transcribe_ko"
    /\ pc' = "pass1"
    /\ UNCHANGED <<anchorVars, anchor_end_time, walkVars, outcome, extracted, script_text, folderVars, batchVars, convVars>>

\* one iteration of the single-segment search of the smart and the fast
\* extractor; eligible is the test on the segment's start
Pass1Body(eligible) ==
    LET text == Strip(segments_ko[i].text)
        found == IF eligible /\ AnchorIn(impl, text)
                 THEN Some(segments_ko[i].end)
                 ELSE anchor_end_time
    IN  /\ anchor_end_time' = found
        /\ IF eligible /\ Truthy(found)
           THEN pc' = "after_pass1" /\ i' = i
           ELSE pc' = pc /\ i' = i + 1

\* smart_extract.py 171-183
SmartPass1Segment ==
    /\ pc = "pass1"
    /\ impl = "smart"
    /\ i <= Len(segments_ko)
    /\ Pass1Body(TRUE)
    /\ UNCHANGED <<impl, segments_ko, search_start_time, walkVars, outcome, extracted, script_text, folderVars, batchVars, convVars>>

\* fast_extract.py 81-94
FastPass1Segment ==
    /\ pc = "pass1"
    /\ impl = "fast"
    /\ i <= Len(segments_ko)
    /\ Pass1Body(segments_ko[i].start >= search_start_time)
    /\ UNCHANGED <<impl, segments_ko, search_start_time, walkVars, outcome, extracted, script_text, folderVars, batchVars, convVars>>

\* batch_extract_conversation.py 77-87: the first match returns
BatchAnchorSegment ==
    /\ pc = "pass1"
    /\ impl = "batch"
    /\ i <= Len(segments_ko)
    /\ IF /\ segments_ko[i].start >= search_start_time
          /\ AnchorIn(impl, Strip(segments_ko[i].text))
       THEN /\ anchor_end_time' = Some(segments_ko[i].end)
            /\ pc' = "located"
            /\ i' = i
       ELSE /\ i' = i + 1
            /\ UNCHANGED <<anchor_end_time, pc>>
    /\ UNCHANGED <<impl, segments_ko, search_start_time, walkVars, outcome, extracted, script_text, folderVars, batchVars, convVars>>

\* extract_conversation.py 67-76: the first match returns; there is no
\* search start
ConvAnchorSegment ==
    /\ pc = "pass1"
    /\ impl = "conv"
    /\ i <= Len(segments_ko)
    /\ IF AnchorIn(impl, Strip(segments_ko[i].text))
       THEN /\ anchor_end_time' = Some(segments_ko[i].end)
            /\ pc' = "located"
            /\ i' = i
       ELSE /\ i' = i + 1
            /\ UNCHANGED <<anchor_end_time, pc>>
    /\ UNCHANGED <<impl, segments_ko, search_start_time, walkVars, outcome, extracted, script_text, folderVars, batchVars, convVars>>

\* the single-segment loop runs out of segments
Pass1Exhausted ==
    /\ pc = "pass1"
    /\ i > Len(segments_ko)
    /\ pc' = IF impl \in {"smart", "fast"} THEN "after_pass1" ELSE "located"
    /\ UNCHANGED <<anchorVars, anchor_end_time, walkVars, outcome, extracted, script_text, folderVars, batchVars, convVars>>

\* smart_extract.py 186, fast_extract.py 97: the merged search runs only
\* when anchor_end_time is None
AfterPass1 ==
    /\ pc = "after_pass1"
    /\ IF anchor_end_time = None
       THEN pc' = "pass2" /\ i' = 1
       ELSE pc' = "located" /\ i' = i
    /\ UNCHANGED <<impl, segments_ko, search_start_time, anchor_end_time,
                   walkVars, outcome, extracted, script_text, folderVars, batchVars, convVars>>

\* one iteration of the merged search over segments i, i+1, i+2
Pass2Body(eligible) ==
    IF eligible /\ i < Len(segments_ko) - 1
    THEN LET combined_text == Strip(segments_ko[i].text \o segments_ko[i + 1].text
                                      \o segments_ko[i + 2].text)
             found == IF AnchorIn(impl, combined_text)
                      THEN Some(segments_ko[i + 2].end)
                      ELSE anchor_end_time
         IN  /\ anchor_end_time' = found
             /\ IF Truthy(found)
                THEN pc' = "located" /\ i' = i
                ELSE pc' = pc /\ i' = i + 1
    ELSE /\ i' = i + 1
         /\ UNCHANGED <<anchor_end_time, pc>>

\* smart_extract.py 188-205
SmartPass2Segment ==
    /\ pc = "pass2"
    /\ impl = "smart"
    /\ i <= Len(segments_ko)
    /\ Pass2Body(TRUE)
    /\ UNCHANGED <<impl, segments_ko, search_start_time, walkVars, outcome, extracted, script_text, folderVars, batchVars, convVars>>

\* fast_extract.py 99-117
FastPass2Segment ==
    /\ pc = "pass2"
    /\ impl = "fast"
    /\ i <= Len(segments_ko)
    /\ Pass2Body(segments_ko[i].start >= search_start_time)
    /\ UNCHANGED <<impl, segments_ko, search_start_time, walkVars, outcome, extracted, script_text, folderVars, batchVars, convVars>>

\* the merged loop runs out of segments
Pass2Exhausted ==
    /\ pc = "pass2"
    /\ i > Len(segments_ko)
    /\ pc' = "located"
    /\ UNCHANGED <<anchorVars, anchor_end_time, walkVars, outcome, extracted, script_text, folderVars, batchVars, convVars>>

\* the anchor is reported as found although there is none
NotFoundOutcome_Success(which) ==
    Returned(IF which \in {"smart", "fast"} THEN <<TRUE, None, None>>
             ELSE IF which = "batch" THEN <<TRUE, None>>
             ELSE <<None>>)

\* no anchor: smart and fast return (False, None, None), process_file of the
\* batch extractor returns (False, None), find_anchor_phrase returns None
NotFoundOutcome(which) ==
    Returned(IF which \in {"smart", "fast"} THEN <<FALSE, None, None>>
             ELSE IF which = "batch" THEN <<FALSE, None>>
             ELSE <<None>>)

\* smart_extract.py 207-209, fast_extract.py 119-121,
\* batch_extract_conversation.py 208-210, extract_conversation.py 78-79
AnchorNotFound ==
    /\ pc = "located"
    /\ anchor_end_time = None
    /\ outcome' = NotFoundOutcome(impl)
    /\ pc' = "done"
    /\ UNCHANGED <<anchorVars, anchor_end_time, walkVars, extracted, script_text, folderVars, batchVars, convVars>>

\* an anchor: the extractor goes on to its extraction
AnchorFound ==
    /\ pc = "located"
    /\ anchor_end_time # None
    /\ pc' = "anchored"
    /\ UNCHANGED <<anchorVars, anchor_end_time, walkVars, outcome, extracted, script_text, folderVars, batchVars, convVars>>

\* default length of the clip of the fast extractor: 50 s
extraction_duration == 500

\* fast_extract.py 123-151: the fast extractor slices
\* [anchor + start_offset, anchor + start_offset + extraction_duration] and
\* returns success; it writes no script
FastExtract ==
    /\ pc = "anchored"
    /\ impl = "fast"
    /\ extracted' = Some([start |-> anchor_end_time[1] + start_offset,
                          end |-> anchor_end_time[1] + start_offset
                                     + extraction_duration])
    /\ outcome' = Returned(<<TRUE, anchor_end_time, Some("output_path")>>)
    /\ pc' = "done"
    /\ UNCHANGED <<anchorVars, anchor_end_time, walkVars, script_text, folderVars, batchVars, convVars>>

NextAnchor ==
    \/ TranscribeKoSegment
    \/ TranscribeKoDone
    \/ SmartPass1Segment
    \/ FastPass1Segment
    \/ BatchAnchorSegment
    \/ ConvAnchorSegment
    \/ Pass1Exhausted
    \/ AfterPass1
    \/ SmartPass2Segment
    \/ FastPass2Segment
    \/ Pass2Exhausted
    \/ AnchorNotFound
    \/ AnchorFound
    \/ FastExtract

SpecAnchor == InitAnchor /\ [][NextAnchor]_vars

----------------------------------------------------------------------------
\* _is_english_segment on its own, over texts built from a few words

\* "Hello"
WordHello == <<72, 101, 108, 108, 111>>

\* "World"
WordWorld == <<87, 111, 114, 108, 100>>

\* "World!"
WordWorldBang == <<87, 111, 114, 108, 100, 33>>

\* "HelloWorld12": twelve characters, one word
WordTwelve == <<72, 101, 108, 108, 111, 87, 111, 114, 108, 100, 49, 50>>

\* "5KG"
WordKG == <<53, 75, 71>>

\* "5" U+212A "g": the Kelvin sign, which str.lower() turns into k
WordKelvinG == <<53, 8490, 103>>

\* U+C548 U+B155
WordHangul == <<50504, 45397>>

\* U+C8FC U+C138 U+C694, the tenth pattern of the denylist
WordJuseyo == <<51452, 49464, 50836>>

Words == {<<>>, WordHello, WordWorld, WordWorldBang, WordTwelve, WordKG,
          WordKelvinG, WordHangul, WordJuseyo}

\* what stands before and after the words: nothing, a space, an ideographic
\* space and a tab
Pads == {<<>>, <<32>>, <<12288, 9>>}

\* what stands between the words: nothing, a space, a tab and a line feed
Seps == {<<>>, <<32>>, <<9, 10>>}

TextPool ==
    {a \o v \o b \o w \o c : a \in Pads, v \in Words, b \in Seps, w \in Words,
                              c \in Pads}

InitClassify ==
    /\ \E t \in TextPool : segments = << Seg(0, 0, t) >>
    /\ impl = "smart"
    /\ search_start_time = 0
    /\ segments_ko = <<>>
    /\ i = 1
    /\ anchor_end_time = None
    /\ ina_segments = <<>>
    /\ idx = 1
    /\ english_start_time = None
    /\ english_end_time = None
    /\ last_end_time = 0
    /\ consecutive_valid = 0
    /\ first_conversation_found = FALSE
    /\ walk_exit = "running"
    /\ pc = "classify"
    /\ outcome = Pending
    /\ extracted = None
    /\ is_english = <<>>
    /\ script_text = None
    /\ HAS_INA = TRUE
    /\ mp3_files = <<>>
    /\ results = <<>>
    /\ audio_len = 0
    /\ target_segments = <<>>
    /\ extract_start = None
    /\ extract_end = None
    /\ looking_for_content = TRUE
    /\ self_transcription = None
    /\ calls = <<>>

\* one call self._is_english_segment(text) with the text as it stands
ClassifyText ==
    /\ pc = "classify"
    /\ is_english' = Append(is_english,
                            Call(segments[idx].text,
                                 is_english_segment(segments[idx].text)))
    /\ idx' = idx + 1
    /\ pc' = "done"
    /\ UNCHANGED <<anchorVars, anchor_end_time, segments, ina_segments,
                   english_start_time, english_end_time, last_end_time,
                   consecutive_valid, first_conversation_found, walk_exit,
                   outcome, extracted, script_text, folderVars, batchVars, convVars>>

NextClassify == ClassifyText

SpecClassify == InitClassify /\ [][NextClassify]_vars

----------------------------------------------------------------------------
\* main and process_folder of the smart, the fast and the batch extractor

\* most files a folder holds
MaxFiles == 3

\* what the per-file operation comes to on a file: a clip, no anchor, or an
\* anchor without any content after it
Fates == {"extracted", "no_anchor", "no_window"}

\* the fast and the batch extractor have no walk that could find no window
FatesOf(which) == IF which = "smart" THEN Fates ELSE Fates \ {"no_window"}

\* how the per-file operation ends on a file of the given fate
file_outcome(which, fate) ==
    IF fate = "no_anchor" THEN NotFoundOutcome(which)
    ELSE IF fate = "no_window" THEN FallbackOutcome
    ELSE IF which = "batch" THEN Returned(<<TRUE, Some("output_path")>>)
    ELSE Returned(<<TRUE, Some(FamilyAnchor), Some("output_path")>>)

InitFolder ==
    /\ impl \in {"smart", "fast", "batch"}
    /\ HAS_INA \in BOOLEAN
    /\ \E n \in 0..MaxFiles : mp3_files \in [1..n -> FatesOf(impl)]
    /\ results = <<>>
    /\ i = 1
    /\ pc = "main"
    /\ outcome = Pending
    /\ search_start_time = 0
    /\ segments_ko = <<>>
    /\ anchor_end_time = None
    /\ segments = <<>>
    /\ ina_segments = <<>>
    /\ idx = 1
    /\ english_start_time = None
    /\ english_end_time = None
    /\ last_end_time = 0
    /\ consecutive_valid = 0
    /\ first_conversation_found = FALSE
    /\ walk_exit = "running"
    /\ extracted = None
    /\ is_english = <<>>
    /\ script_text = None
    /\ audio_len = 0
    /\ target_segments = <<>>
    /\ extract_start = None
    /\ extract_end = None
    /\ looking_for_content = TRUE
    /\ self_transcription = None
    /\ calls = <<>>

\* main: smart_extract.py 688-697 returns at once when inaSpeechSegmenter
\* could not be imported; the mains of the other two go on to process_folder
Main ==
    /\ pc = "main"
    /\ IF impl = "smart" /\ ~HAS_INA
       THEN pc' = "done" /\ outcome' = Returned(<<None>>)
       ELSE pc' = "folder" /\ outcome' = outcome
    /\ UNCHANGED <<anchorVars, anchor_end_time, walkVars, extracted, script_text, folderVars, batchVars, convVars>>

\* process_folder finds no file and returns
NoFiles ==
    /\ pc = "folder"
    /\ mp3_files = <<>>
    /\ pc' = "done"
    /\ outcome' = Returned(<<None>>)
    /\ UNCHANGED <<anchorVars, anchor_end_time, walkVars, extracted, script_text, folderVars, batchVars, convVars>>

\* one iteration of the loop over mp3_files (smart_extract.py 645-657,
\* fast_extract.py 198-214, batch_extract_conversation.py 264-271): the smart
\* and the fast extractor call the per-file operation without any try, so
\* what it raises leaves process_folder and main; what it returns becomes one
\* entry of the results (one printed line of the batch extractor)
ProcessFile ==
    /\ pc = "folder"
    /\ i <= Len(mp3_files)
    /\ LET called == file_outcome(impl, mp3_files[i])
       IN  IF called.raised # ""
           THEN /\ outcome' = called
                /\ pc' = "done"
                /\ UNCHANGED <<i, results>>
           ELSE /\ results' = Append(results, [file |-> i, success |-> called.ret[1]])
                /\ i' = i + 1
                /\ UNCHANGED <<pc, outcome>>
    /\ UNCHANGED <<impl, segments_ko, search_start_time, anchor_end_time, walkVars,
                   extracted, script_text, HAS_INA, mp3_files, batchVars, convVars>>

\* the loop is over: the summary is printed and process_folder returns
Summary ==
    /\ pc = "folder"
    /\ mp3_files # <<>>
    /\ i > Len(mp3_files)
    /\ pc' = "done"
    /\ outcome' = Returned(<<None>>)
    /\ UNCHANGED <<anchorVars, anchor_end_time, walkVars, extracted, script_text, folderVars, batchVars, convVars>>

NextFolder ==
    \/ Main
    \/ NoFiles
    \/ ProcessFile
    \/ Summary

SpecFolder == InitFolder /\ [][NextFolder]_vars

----------------------------------------------------------------------------
\* BatchConversationExtractor.extract_music_segment
\* (batch_extract_conversation.py 92-195), called by process_file at line 219
\* with the anchor that find_anchor_optimized returned, after process_folder
\* has run load_models (line 246), so that self.segmenter is None exactly
\* when HAS_INA is false

\* most label intervals in a generated segmentation
MaxLabels == 4

\* the labels the loop of lines 134-153 tells apart
content_labels == {"music", "male", "female"}

\* line 132, in tenths of a second
silence_threshold == 20

\* the default of the parameter duration of _extract_simple (line 177), the
\* value lines 104 and 117 pass
simple_duration == 1800

\* one generated interval: its label and how long it lasts; a silence lasts
\* exactly 2.0 s or 2.1 s
LabelKinds ==
    { [label |-> "music", dur |-> 20],
      [label |-> "male", dur |-> 20],
      [label |-> "female", dur |-> 20],
      [label |-> "noEnergy", dur |-> 20],
      [label |-> "noEnergy", dur |-> 21],
      [label |-> "noise", dur |-> 20] }

RECURSIVE Partition(_, _)
\* the segmenter cuts the file into intervals that follow each other
Partition(kinds, from) ==
    IF kinds = <<>> THEN <<>>
    ELSE << Lab(Head(kinds).label, from, from + Head(kinds).dur) >>
         \o Partition(Tail(kinds), from + Head(kinds).dur)

\* anchors of the generated runs: at the start of the second interval, and
\* inside it
BatchAnchors == {20, 30}

\* len(audio) of the files
AudioLengths == {1000, 3000}

\* speech before the anchor, noise and a long silence before the content,
\* music, a silence of exactly 2.0 s, speech, a silence of 2.1 s, speech
MusicScenario ==
    << Lab("male", 0, 10), Lab("noise", 10, 30), Lab("noEnergy", 30, 55),
       Lab("music", 55, 100), Lab("noEnergy", 100, 120), Lab("male", 120, 200),
       Lab("noEnergy", 200, 221), Lab("female", 221, 300) >>

\* music, another label, music
OtherLabelScenario ==
    << Lab("music", 0, 40), Lab("female", 40, 90), Lab("speech", 90, 120),
       Lab("music", 120, 200) >>

BatchInputs ==
    { [labels |-> Partition(kinds, 0), anchor |-> a, has_ina |-> TRUE,
       audio_len |-> 3000] :
         kinds \in UNION {[1..n -> LabelKinds] : n \in 0..MaxLabels},
         a \in BatchAnchors }
    \cup
    { [labels |-> l, anchor |-> a, has_ina |-> h, audio_len |-> n] :
         l \in {MusicScenario, OtherLabelScenario}, a \in {0, 10, 500},
         h \in BOOLEAN, n \in AudioLengths }

InitBatch ==
    /\ \E inp \in BatchInputs :
          /\ ina_segments = inp.labels
          /\ anchor_end_time = Some(inp.anchor)
          /\ HAS_INA = inp.has_ina
          /\ audio_len = inp.audio_len
    /\ impl = "batch"
    /\ pc = "extract_music"
    /\ segments_ko = <<>>
    /\ search_start_time = 0
    /\ i = 1
    /\ segments = <<>>
    /\ idx = 1
    /\ english_start_time = None
    /\ english_end_time = None
    /\ last_end_time = 0
    /\ consecutive_valid = 0
    /\ first_conversation_found = FALSE
    /\ walk_exit = "running"
    /\ outcome = Pending
    /\ extracted = None
    /\ is_english = <<>>
    /\ script_text = None
    /\ mp3_files = <<>>
    /\ results = <<>>
    /\ target_segments = <<>>
    /\ extract_start = None
    /\ extract_end = None
    /\ looking_for_content = TRUE
    /\ self_transcription = None
    /\ calls = <<>>

\* lines 177-195: the slice [anchor, min(anchor + duration, len(audio))]
extract_simple(anchor, dur, length) ==
    [start |-> anchor, end |-> Min({anchor + dur, length})]

\* lines 110-113: the intervals that start at or after the anchor, in order
TargetsOf(labels, anchor) ==
    SelectSeq(labels, LAMBDA l : l.start >= anchor)

\* a silence as long as the threshold is long
LongSilence_Inclusive(l) == l.end - l.start >= silence_threshold

\* line 143: (end - start) > silence_threshold
LongSilence(l) == l.end - l.start > silence_threshold

\* lines 101-104: no segmenter, the fixed 3 minutes are exported
SegmenterUnavailable ==
    /\ pc = "extract_music"
    /\ ~HAS_INA
    /\ extracted' = Some(extract_simple(anchor_end_time[1], simple_duration, audio_len))
    /\ outcome' = Returned(<<TRUE>>)
    /\ pc' = "done"
    /\ UNCHANGED <<anchorVars, anchor_end_time, walkVars, script_text, folderVars,
                   batchVars, convVars>>

\* lines 107-117: no interval at or after the anchor, the fixed 3 minutes
\* are exported
NoTargetSegments ==
    /\ pc = "extract_music"
    /\ HAS_INA
    /\ TargetsOf(ina_segments, anchor_end_time[1]) = <<>>
    /\ extracted' = Some(extract_simple(anchor_end_time[1], simple_duration, audio_len))
    /\ outcome' = Returned(<<TRUE>>)
    /\ pc' = "done"
    /\ UNCHANGED <<anchorVars, anchor_end_time, walkVars, script_text, folderVars,
                   batchVars, convVars>>

\* lines 107-132: the intervals are filtered and the loop starts with
\* extract_start = extract_end = anchor_end_time
BeginLabelWalk ==
    /\ pc = "extract_music"
    /\ HAS_INA
    /\ TargetsOf(ina_segments, anchor_end_time[1]) # <<>>
    /\ target_segments' = TargetsOf(ina_segments, anchor_end_time[1])
    /\ extract_start' = anchor_end_time
    /\ extract_end' = anchor_end_time
    /\ looking_for_content' = TRUE
    /\ idx' = 1
    /\ pc' = "labels"
    /\ UNCHANGED <<anchorVars, anchor_end_time, segments, ina_segments,
                   english_start_time, english_end_time, last_end_time,
                   consecutive_valid, first_conversation_found, walk_exit,
                   is_english, outcome, extracted, script_text, folderVars,
                   audio_len, convVars>>

\* lines 134-153: one iteration of the loop over target_segments
LabelStep ==
    /\ pc = "labels"
    /\ idx <= Len(target_segments)
    /\ LET l == target_segments[idx]
       IN  IF l.label \in content_labels
           THEN /\ extract_start' = IF looking_for_content THEN Some(l.start)
                                    ELSE extract_start
                /\ looking_for_content' = FALSE
                /\ extract_end' = Some(l.end)
                /\ idx' = idx + 1
                /\ UNCHANGED <<pc, walk_exit>>
           ELSE IF l.label = "noEnergy"
           THEN IF ~looking_for_content /\ LongSilence(l)
                THEN /\ pc' = "export"
                     /\ walk_exit' = "silence"
                     /\ UNCHANGED <<extract_start, extract_end, looking_for_content,
                                    idx>>
                ELSE /\ idx' = idx + 1
                     /\ UNCHANGED <<extract_start, extract_end, looking_for_content,
                                    pc, walk_exit>>
           ELSE IF ~looking_for_content
                THEN /\ pc' = "export"
                     /\ walk_exit' = "other"
                     /\ UNCHANGED <<extract_start, extract_end, looking_for_content,
                                    idx>>
                ELSE /\ idx' = idx + 1
                     /\ UNCHANGED <<extract_start, extract_end, looking_for_content,
                                    pc, walk_exit>>
    /\ UNCHANGED <<anchorVars, anchor_end_time, segments, ina_segments,
                   english_start_time, english_end_time, last_end_time,
                   consecutive_valid, first_conversation_found, is_english,
                   outcome, extracted, script_text, folderVars, audio_len,
                   target_segments, convVars>>

\* the loop of lines 134-153 ends without a break
LabelsExhausted ==
    /\ pc = "labels"
    /\ idx > Len(target_segments)
    /\ pc' = "export"
    /\ walk_exit' = "exhausted"
    /\ UNCHANGED <<anchorVars, anchor_end_time, segments, ina_segments, idx,
                   english_start_time, english_end_time, last_end_time,
                   consecutive_valid, first_conversation_found, is_english,
                   outcome, extracted, script_text, folderVars, batchVars,
                   convVars>>

\* lines 155-175: the slice [extract_start, extract_end] is exported
ExportMusic ==
    /\ pc = "export"
    /\ extracted' = Some([start |-> extract_start[1], end |-> extract_end[1]])
    /\ outcome' = Returned(<<TRUE>>)
    /\ pc' = "done"
    /\ UNCHANGED <<anchorVars, anchor_end_time, walkVars, script_text, folderVars,
                   batchVars, convVars>>

NextBatch ==
    \/ SegmenterUnavailable
    \/ NoTargetSegments
    \/ BeginLabelWalk
    \/ LabelStep
    \/ LabelsExhausted
    \/ ExportMusic

SpecBatch == InitBatch /\ [][NextBatch]_vars

----------------------------------------------------------------------------
\* ConversationExtractor (extract_conversation.py 20-187): the methods of one
\* object, called in any order

\* most calls on one object
MaxCalls == 5

\* duration_seconds of extract_segment_simple (line 81), in tenths
duration_seconds == 1800

\* what model.transcribe can yield: a transcript with the anchor phrase in
\* its second segment, one without it, and one whose first segment holds the
\* phrase and ends at 0.0
ConvWithAnchor == << Seg(0, 30, TextOther), Seg(30, 50, TextAnchor) >>

ConvNoAnchor == << Seg(0, 30, TextOther) >>

ConvZeroAnchor == << Seg(0, 0, TextAnchor), Seg(0, 20, TextAnchor) >>

ConvTranscripts == {ConvWithAnchor, ConvNoAnchor, ConvZeroAnchor}

\* one entry of the log: the method, what it returned (None or a value) and
\* the slice it exported (None if none)
Called(method, ret, exported) ==
    [method |-> method, ret |-> ret, exported |-> exported]

InitConv ==
    /\ impl = "conv"
    /\ self_transcription = None
    /\ anchor_end_time = None
    /\ calls = <<>>
    /\ HAS_INA \in BOOLEAN
    /\ ina_segments \in {MusicScenario, OtherLabelScenario}
    /\ audio_len \in AudioLengths
    /\ pc = "idle"
    /\ segments_ko = <<>>
    /\ search_start_time = 0
    /\ i = 1
    /\ segments = <<>>
    /\ idx = 1
    /\ english_start_time = None
    /\ english_end_time = None
    /\ last_end_time = 0
    /\ consecutive_valid = 0
    /\ first_conversation_found = FALSE
    /\ walk_exit = "running"
    /\ outcome = Pending
    /\ extracted = None
    /\ is_english = <<>>
    /\ script_text = None
    /\ mp3_files = <<>>
    /\ results = <<>>
    /\ target_segments = <<>>
    /\ extract_start = None
    /\ extract_end = None
    /\ looking_for_content = TRUE

\* what no method of the object touches
convFrame == <<anchorVars, segments, ina_segments, idx, english_start_time,
               english_end_time, last_end_time, consecutive_valid,
               first_conversation_found, walk_exit, is_english, pc, outcome,
               script_text, folderVars, batchVars>>

\* lines 40-56: self.transcription = self.model.transcribe(...)
transcribe_audio ==
    /\ Len(calls) < MaxCalls
    /\ \E t \in ConvTranscripts :
          /\ self_transcription' = Some(t)
          /\ calls' = Append(calls, Called("transcribe_audio", Some(t), None))
    /\ UNCHANGED <<convFrame, anchor_end_time, extracted>>

\* a search without a match forgets the anchor
find_anchor_phrase_Forgets(tr, anchor) ==
    IF tr = None THEN [ret |-> None, anchor |-> anchor]
    ELSE LET matching == {k \in 1..Len(tr[1]) : AnchorIn("conv", Strip(tr[1][k].text))}
         IN  IF matching = {} THEN [ret |-> None, anchor |-> None]
             ELSE [ret |-> Some(tr[1][Min(matching)].end),
                   anchor |-> Some(tr[1][Min(matching)].end)]

\* lines 58-79: what find_anchor_phrase returns and what self.anchor_end_time
\* is after it, for the transcription and the anchor before it
find_anchor_phrase(tr, anchor) ==
    IF tr = None THEN [ret |-> None, anchor |-> anchor]
    ELSE LET matching == {k \in 1..Len(tr[1]) : AnchorIn("conv", Strip(tr[1][k].text))}
         IN  IF matching = {} THEN [ret |-> None, anchor |-> anchor]
             ELSE [ret |-> Some(tr[1][Min(matching)].end),
                   anchor |-> Some(tr[1][Min(matching)].end)]

\* one call of find_anchor_phrase with the default phrases
FindAnchorPhrase ==
    /\ Len(calls) < MaxCalls
    /\ LET found == find_anchor_phrase(self_transcription, anchor_end_time)
       IN  /\ anchor_end_time' = found.anchor
           /\ calls' = Append(calls, Called("find_anchor_phrase", found.ret, None))
    /\ UNCHANGED <<convFrame, self_transcription, extracted>>

\* lines 81-116: None without an anchor, else the slice
\* [anchor, min(anchor + duration_seconds, len(audio))] is exported
extract_segment_simple ==
    /\ Len(calls) < MaxCalls
    /\ IF anchor_end_time = None
       THEN /\ calls' = Append(calls, Called("extract_segment_simple", None, None))
            /\ UNCHANGED extracted
       ELSE LET clip == [start |-> anchor_end_time[1],
                         end |-> Min({anchor_end_time[1] + duration_seconds,
                                      audio_len})]
            IN  /\ extracted' = Some(clip)
                /\ calls' = Append(calls, Called("extract_segment_simple",
                                                 Some("output_path"), Some(clip)))
    /\ UNCHANGED <<convFrame, self_transcription, anchor_end_time>>

RECURSIVE LeadingContentEnd(_, _)
\* lines 144-151: extract_end is the end of the last interval of the leading
\* run of music, female and male intervals
LeadingContentEnd(targets, end) ==
    IF targets = <<>> THEN end
    ELSE IF Head(targets).label \in {"music", "female", "male"}
    THEN LeadingContentEnd(Tail(targets), Head(targets).end)
    ELSE end

\* lines 118-175: None when inaSpeechSegmenter cannot be imported, None
\* without an anchor, else the slice [anchor, extract_end] is exported
extract_segment_smart ==
    /\ Len(calls) < MaxCalls
    /\ IF ~HAS_INA \/ anchor_end_time = None
       THEN /\ calls' = Append(calls, Called("extract_segment_smart", None, None))
            /\ UNCHANGED extracted
       ELSE LET clip == [start |-> anchor_end_time[1],
                         end |-> LeadingContentEnd(
                                     TargetsOf(ina_segments, anchor_end_time[1]),
                                     anchor_end_time[1])]
            IN  /\ extracted' = Some(clip)
                /\ calls' = Append(calls, Called("extract_segment_smart",
                                                 Some("output_path"), Some(clip)))
    /\ UNCHANGED <<convFrame, self_transcription, anchor_end_time>>

\* lines 177-187: None without a transcription, else the file is written
save_transcription ==
    /\ Len(calls) < MaxCalls
    /\ calls' = Append(calls, Called("save_transcription",
                                     IF self_transcription = None THEN None
                                     ELSE Some("output_path"), None))
    /\ UNCHANGED <<convFrame, self_transcription, anchor_end_time, extracted>>

NextConv ==
    \/ transcribe_audio
    \/ FindAnchorPhrase
    \/ extract_segment_simple
    \/ extract_segment_smart
    \/ save_transcription

SpecConv == InitConv /\ [][NextConv]_vars

----------------------------------------------------------------------------
\* Properties of the walk and of what follows it

\* the segment the for loop is about to process
AtSegment == pc = "walk" /\ idx <= Len(segments)

Cur == segments[idx]

Anchor == anchor_end_time[1]

\* the texts of the transcripts that the classifier takes for content
ContentTexts ==
    {t \in {TextEnglish, TextKorean, TextNoise} : is_english_segment(t)}

\* segment k of the transcript is content
IsContent(k) == segments[k].text \in ContentTexts

\* a window start has been recorded
InContent == english_start_time # None

Succeeded == outcome.raised = "" /\ outcome.ret # <<>> /\ outcome.ret[1] = TRUE

\* C1: while a window start is recorded, a non-content segment whose text
\* contains a Hangul character ends the walk at once, whatever its gap, and
\* leaves window.end as it was.
C1_HangulEndsWalk ==
    [][ (AtSegment /\ InContent /\ Cur.start >= Anchor
            /\ ~IsContent(idx) /\ is_korean(Cur.text))
        => (pc' = "after_walk" /\ english_end_time' = english_end_time) ]_vars

\* C2: when the walk yields no window, the call completes with the fixed
\* window {anchor + 46 s, anchor + 46 s + 50 s} and returns success together
\* with the anchor time.
C2_FallbackSucceeds ==
    (pc = "done" /\ (english_start_time = None \/ english_end_time = None))
    => /\ outcome = Returned(extract_fixed(Anchor).ret)
       /\ extracted = Some(extract_fixed(Anchor).window)

\* C3: every window that is sliced and reported as a success has
\* start < end.
C3_WindowNotEmpty ==
    (Succeeded /\ extracted # None) => extracted[1].start < extracted[1].end

\* a content segment starts within the timeout of the anchor
ContentWithinTimeout ==
    \E k \in 1..Len(segments) :
        /\ segments[k].start >= Anchor
        /\ segments[k].start <= Anchor + 600
        /\ IsContent(k)

\* C4: if no segment starting in [anchor, anchor + 60 s] is content, the
\* window start and end stay unset through the whole walk and nothing is
\* sliced from a tracked window, whatever comes after the timeout.
C4_TimeoutNoWindow ==
    ~ContentWithinTimeout
    => /\ english_start_time = None
       /\ english_end_time = None
       /\ pc = "done" => ~Succeeded

\* the walk timed out although a content segment follows the timeout
C4_Witness ==
    /\ pc = "after_walk"
    /\ walk_exit = "timeout"
    /\ ~ContentWithinTimeout
    /\ \E k \in 1..Len(segments) :
          /\ segments[k].start > Anchor + 600
          /\ IsContent(k)

\* segments f..l are the first content run of a clean transcript: sorted by
\* start, f is the first content segment and starts within the timeout,
\* at least three content segments in a row, then a non-content segment
\* starting more than 5 s after the end of segment l
CleanRun(f, l) ==
    /\ l >= f + 2
    /\ l < Len(segments)
    /\ \A k \in 1..(Len(segments) - 1) : segments[k].start <= segments[k + 1].start
    /\ \A k \in 1..(f - 1) : ~IsContent(k)
    /\ segments[f].start >= Anchor
    /\ segments[f].start <= Anchor + 600
    /\ \A k \in f..l : IsContent(k)
    /\ ~IsContent(l + 1)
    /\ segments[l + 1].start - segments[l].end > 50

\* C5: on a clean transcript the window is {start of the first content
\* segment, end of the last content segment of the run}.
C5_CleanInputWindow ==
    pc \in {"after_walk", "done"}
    => \A f, l \in 1..Len(segments) :
          CleanRun(f, l)
          => /\ english_start_time = Some(segments[f].start)
             /\ english_end_time = Some(segments[l].end)

\* the example of the property: anchor 0, content [1,5], [6,9], [10,14],
\* Korean text 20 s later, window {1, 14}
C5_Witness ==
    /\ pc = "done"
    /\ segments = CleanTranscript
    /\ Anchor = 0
    /\ CleanRun(1, 3)
    /\ extracted = Some([start |-> 10, end |-> 140])

C7_EndToEnd ==
    (pc = "done" /\ segments = EndToEndTranscript /\ Anchor = 1000
        /\ ina_segments = EndToEndLabels)
    => extracted = Some([start |-> 1050, end |-> 1189])

\* the refinement the property describes: the latest end among the music
\* intervals starting before window.end + 2 s replaces window.end when it
\* lies more than -10 s and less than 5 s from it
RefinedWindow(window, labels) ==
    LET cands == {k \in 1..Len(labels) :
                     /\ labels[k].label = "music"
                     /\ labels[k].start < window.end + 20}
    IN  IF cands = {} THEN window
        ELSE LET candidate_end == Max({labels[k].end : k \in cands})
                 diff == candidate_end - window.end
             IN  IF diff > -100 /\ diff < 50
                 THEN [start |-> window.start, end |-> candidate_end]
                 ELSE window

\* C8: the window that is sliced is the tracked window with its end
\* replaced by the music end exactly when the difference is inside the
\* band, and unchanged otherwise.
C8_RefinedEnd ==
    (pc = "done" /\ extracted # None)
    => extracted[1] = RefinedWindow([start |-> english_start_time[1],
                                     end |-> english_end_time[1]], ina_segments)

\* the segments of the transcript that overlap the exported window, ends
\* included
Overlapping ==
    {k \in 1..Len(segments) :
        /\ segments[k].start <= extracted[1].end
        /\ segments[k].end >= extracted[1].start}

\* C19: the script holds, in transcript order, exactly the segments with
\* seg.start <= window.end and seg.end >= window.start, so also a segment
\* that only touches an end of the window.
C19_ScriptOverlap ==
    (pc = "done" /\ script_text # None)
    => /\ Len(script_text[1]) = Cardinality(Overlapping)
       /\ \A k \in Overlapping :
             LET n == Cardinality({j \in Overlapping : j <= k})
             IN  /\ script_text[1][n].start = segments[k].start
                 /\ script_text[1][n].end = segments[k].end
                 /\ script_text[1][n].text = Strip(segments[k].text)

\* the script of the window {5.0, 7.0} holds the segment that ends at 5.0,
\* the content segment and the segment that starts at 7.0, and not the last
C19_Witness ==
    /\ pc = "done"
    /\ segments = TouchingTranscript
    /\ extracted = Some([start |-> 50, end |-> 70])
    /\ script_text # None
    /\ Len(script_text[1]) = 3

\* a run of at least 3 content segments, with no rejected segment at or
\* after the anchor in between, lies among the segments the walk has passed
ConfirmedRunSeen ==
    \E a, b \in 1..(idx - 1) :
        /\ a <= b
        /\ \A k \in a..b : segments[k].start >= Anchor => IsContent(k)
        /\ Cardinality({k \in a..b : segments[k].start >= Anchor /\ IsContent(k)}) >= 3

\* C20: throughout the walk the confirmed flag is true exactly when such a
\* run has been passed, so it is never cleared by a later reset of the
\* counter and two runs of two content segments do not set it.
C20_ConfirmedRun ==
    first_conversation_found <=> ConfirmedRunSeen

\* two content segments, a rejected one, two content segments and a text
\* 7 s later: the walk passes all six, not confirmed
C20_Witness ==
    /\ pc = "after_walk"
    /\ segments = InterruptedTranscript
    /\ walk_exit = "exhausted"
    /\ ~first_conversation_found
    /\ english_end_time = Some(330)

\* the walk was left by a gap or by the timeout
Ended == walk_exit \in {"gap", "gap_after_first_set", "timeout"}

\* C21: once the walk has ended by a gap or has timed out, no later segment
\* is classified and the window, the counter and the confirmed flag stay as
\* they are, also when content follows.
C21_TerminalAbsorbing ==
    [][ Ended => UNCHANGED <<english_start_time, english_end_time, last_end_time,
                             consecutive_valid, first_conversation_found,
                             is_english, idx, walk_exit>> ]_vars

\* an unconfirmed walk ended by a gap, content follows the segment that
\* ended it, and the call has gone on to its end
C21_Witness ==
    /\ pc = "done"
    /\ walk_exit = "gap"
    /\ ~first_conversation_found
    /\ idx < Len(segments)
    /\ IsContent(idx + 1)
    /\ Len(is_english) = idx

\* the threshold in force
Threshold == IF first_conversation_found THEN 50 ELSE 150

C23_SearchingTransitions ==
    [][ (AtSegment /\ ~InContent /\ Cur.start >= Anchor /\ Cur.start <= Anchor + 600)
        => /\ Len(is_english') = Len(is_english) + 1
           /\ pc' = "walk"
           /\ IF IsContent(idx)
              THEN /\ english_start_time' = Some(Cur.start)
                   /\ english_end_time' = Some(Cur.end)
                   /\ consecutive_valid' = 1
              ELSE /\ english_start_time' = None
                   /\ english_end_time' = None
                   /\ consecutive_valid' = 0 ]_vars

\* the window starts exactly 60 s after the anchor, after a rejected segment
C23_Witness ==
    /\ english_start_time = Some(Anchor + 600)
    /\ consecutive_valid = 1
    /\ Len(is_english) >= 2
    /\ ~is_english[1].verdict

\* C24: a segment that starts before the anchor is passed over without any
\* effect, also when it ends after the anchor; a segment that starts exactly
\* at the anchor is classified.
C24_AnchorCutOff ==
    [][ AtSegment
        => IF Cur.start < Anchor
           THEN /\ idx' = idx + 1
                /\ UNCHANGED <<english_start_time, english_end_time, last_end_time,
                               consecutive_valid, first_conversation_found,
                               walk_exit, is_english, pc>>
           ELSE Cur.start = Anchor => Len(is_english') = Len(is_english) + 1 ]_vars

\* content from before the anchor to after it was passed over and the
\* content that starts at the anchor opened the window
C24_Witness ==
    /\ pc = "walk"
    /\ idx = 3
    /\ segments[1].start < Anchor
    /\ segments[1].end > Anchor
    /\ IsContent(1)
    /\ segments[2].start = Anchor
    /\ Len(is_english) = 1
    /\ english_start_time = Some(Anchor)

\* the content segments at or after the anchor
ContentAfterAnchor ==
    {k \in 1..Len(segments) : segments[k].start >= Anchor /\ IsContent(k)}

\* C25: when the segments run out while a window is open, the call succeeds
\* with the window {start of the first content segment, end of the last
\* content segment}, confirmed or not, and not with the fixed window.
C25_EndOfStream ==
    (pc = "done" /\ walk_exit = "exhausted" /\ InContent)
    => /\ Succeeded
       /\ extracted = Some([start |-> segments[Min(ContentAfterAnchor)].start,
                            end |-> segments[Max(ContentAfterAnchor)].end])

\* the segments ran out on an unconfirmed walk and its window was exported
C25_Witness ==
    /\ pc = "done"
    /\ walk_exit = "exhausted"
    /\ ~first_conversation_found
    /\ segments # <<>>
    /\ extracted # None
    /\ extracted[1].end = segments[Len(segments)].end

\* C26: the window start lies in [anchor, anchor + 60 s] and is the start of
\* the first content segment at or after the anchor in every state after it
\* was set.
C26_WindowStartBounds ==
    InContent
    => /\ Anchor <= english_start_time[1]
       /\ english_start_time[1] <= Anchor + 600
       /\ english_start_time = Some(segments[Min(ContentAfterAnchor)].start)

\* the window started at the anchor and three content segments later still
\* starts there
C26_Witness ==
    /\ pc = "done"
    /\ extracted # None
    /\ extracted[1].start = Anchor
    /\ consecutive_valid >= 3

\* C27: in content, a content segment sets window.end to its own end and
\* the walk goes on, however far it starts after window.end and whether
\* confirmed or not.
C27_ContentAlwaysExtends ==
    [][ (AtSegment /\ InContent /\ Cur.start >= Anchor /\ IsContent(idx))
        => /\ english_end_time' = Some(Cur.end)
           /\ english_start_time' = english_start_time
           /\ pc' = "walk"
           /\ idx' = idx + 1 ]_vars

\* window.end went from 9.0 back to 8.0 and then to 32.0, the end of a
\* content segment 22 s later
C27_Witness ==
    /\ pc = "after_walk"
    /\ walk_exit = "exhausted"
    /\ segments = OverlappingTranscript
    /\ english_start_time = Some(50)
    /\ english_end_time = Some(320)

----------------------------------------------------------------------------
\* Properties of the anchor search

\* segment k may be matched: it starts at or after the search start
AtOrAfterSearchStart(k) == segments_ko[k].start >= search_start_time

\* the text of segment k contains an anchor phrase
HasPhrase(k) == AnchorIn(impl, Strip(segments_ko[k].text))

\* C9: the locators that take a search start return the end of the earliest
\* segment that starts at or after it and contains a phrase, so a phrase
\* before the search start is passed over for the later one.
C9_EarliestFromSearchStart ==
    (pc = "located" /\ impl \in {"fast", "batch"})
    => LET M == {k \in 1..Len(segments_ko) : AtOrAfterSearchStart(k) /\ HasPhrase(k)}
       IN  M # {} => anchor_end_time = Some(segments_ko[Min(M)].end)

\* C10: whatever the end times, the single-segment search of the smart and
\* the fast extractor ends on the first segment that contains a phrase, with
\* that segment's end as its result.
C10_Pass1FirstMatch ==
    (pc = "after_pass1")
    => LET M == {k \in 1..Len(segments_ko) :
                    /\ impl = "fast" => AtOrAfterSearchStart(k)
                    /\ HasPhrase(k)}
       IN  M # {} => /\ anchor_end_time = Some(segments_ko[Min(M)].end)
                     /\ i = Min(M)

\* the concatenated texts of segments k and k + 1 contain an anchor phrase
PairHasPhrase(k) ==
    AnchorIn(impl, Strip(segments_ko[k].text \o segments_ko[k + 1].text))

\* the concatenated texts of segments k, k + 1 and k + 2 contain an anchor
\* phrase
WindowHasPhrase(k) ==
    AnchorIn(impl, Strip(segments_ko[k].text \o segments_ko[k + 1].text
                           \o segments_ko[k + 2].text))

\* the smart or the fast extractor has finished its anchor search
SearchOver == pc = "located" /\ impl \in {"smart", "fast"}

\* C11: when no single segment contains a phrase but two adjacent segments
\* at or after the search start do when concatenated, the search finds an
\* anchor, wherever the two segments lie, also when they are the last two
\* segments or the only two.
C11_SplitPhraseFound ==
    ( /\ SearchOver
      /\ \A k \in 1..Len(segments_ko) : ~HasPhrase(k)
      /\ \E k \in 1..(Len(segments_ko) - 1) :
            /\ AtOrAfterSearchStart(k)
            /\ PairHasPhrase(k) )
    => anchor_end_time # None

\* the segments the single-segment search may match
SingleMatches ==
    {k \in 1..Len(segments_ko) : AtOrAfterSearchStart(k) /\ HasPhrase(k)}

\* the windows of three segments the merged search may match
WindowMatches ==
    {k \in 1..(Len(segments_ko) - 2) : AtOrAfterSearchStart(k) /\ WindowHasPhrase(k)}

\* C12: the merged search runs only when no single segment matched; its
\* result is the end of the third segment of the first matching window, and
\* a single-segment match anywhere takes precedence over every window.
C12_PassOrdering ==
    /\ (pc = "pass2" /\ impl \in {"smart", "fast"}) => SingleMatches = {}
    /\ SearchOver
       => IF SingleMatches # {}
          THEN anchor_end_time \in {Some(segments_ko[k].end) : k \in SingleMatches}
          ELSE IF WindowMatches # {}
          THEN anchor_end_time = Some(segments_ko[Min(WindowMatches) + 2].end)
          ELSE anchor_end_time = None

\* the per-file operation has ended without an anchor
EndedWithoutAnchor ==
    pc = "done" /\ anchor_end_time = None /\ impl \in {"smart", "fast", "batch"}

\* nothing after the anchor search has run: no second transcription, no
\* walk, no clip and no script
NoFurtherStep ==
    /\ segments = <<>>
    /\ is_english = <<>>
    /\ idx = 1
    /\ english_start_time = None
    /\ english_end_time = None
    /\ walk_exit = "running"
    /\ extracted = None
    /\ script_text = None

\* C13 as stated: when neither pass matches, the per-file operation of the
\* smart, the fast and the batch extractor returns (False, None, None) and
\* performs no further step.
C13_NotFoundTriple ==
    EndedWithoutAnchor
    => /\ outcome = Returned(<<FALSE, None, None>>)
       /\ NoFurtherStep

\* C13 amended: when no anchor is found the smart and the fast extractor
\* return (False, None, None), process_file of the batch extractor returns
\* (False, None), and none of them performs a further step.
C13_NotFoundHardFailure ==
    EndedWithoutAnchor
    => /\ outcome = Returned(IF impl = "batch" THEN <<FALSE, None>>
                             ELSE <<FALSE, None, None>>)
       /\ NoFurtherStep

\* the batch extractor has searched a transcript of several segments and
\* ended without an anchor
C13_Witness ==
    /\ EndedWithoutAnchor
    /\ impl = "batch"
    /\ Len(segments_ko) >= 2
    /\ outcome = Returned(<<FALSE, None>>)

----------------------------------------------------------------------------
\* Properties of the classifier

\* what the property calls target content
TargetContent(t) ==
    LET stripped == Strip(t)
    IN  /\ stripped # <<>>
        /\ \A k \in 1..Len(stripped) : ~(stripped[k] >= 44032 /\ stripped[k] <= 55203)
        /\ Len(stripped) >= 12
        /\ \A n \in 1..Len(korean_transliteration_patterns) :
              ~Contains(Lower(korean_transliteration_patterns[n]), Lower(stripped))
        /\ Len(Split(stripped)) >= 2

C15_EmptyRejected ==
    \A n \in 1..Len(is_english) :
        Strip(is_english[n].text) = <<>>
        => /\ ~is_english[n].verdict
           /\ \A l \in {0, min_length}, w \in {0, min_word_count} :
                 ~is_english_segment_with(is_english[n].text, l, w)

\* a text of whitespace only was classified
C15_Witness ==
    \E n \in 1..Len(is_english) :
        /\ is_english[n].text # <<>>
        /\ Strip(is_english[n].text) = <<>>
        /\ ~is_english[n].verdict

PatternKG == <<107, 103>>

\* the verdict of the classifier with 'kg' as the only denylist pattern
KgOnlyContent(t) ==
    LET stripped == Strip(t)
    IN  /\ stripped # <<>>
        /\ \A k \in 1..Len(stripped) : ~(stripped[k] >= 44032 /\ stripped[k] <= 55203)
        /\ Len(stripped) >= 12
        /\ ~Contains(PatternKG, Lower(stripped))
        /\ Len(Split(stripped)) >= 2

\* the denylist rule is reached: the text is not empty, has no Hangul and
\* has at least 12 characters
DenylistReached(t) ==
    LET stripped == Strip(t)
    IN  /\ stripped # <<>>
        /\ \A k \in 1..Len(stripped) : ~(stripped[k] >= 44032 /\ stripped[k] <= 55203)
        /\ Len(stripped) >= 12

\* C30: every denylist pattern but 'kg' is made of Hangul characters; a
\* text that reaches the denylist rule contains a denylist pattern only if
\* it contains 'kg'; and every verdict is the verdict of the classifier
\* with 'kg' as the only pattern.
C30_DenylistReachability ==
    /\ \A n \in 1..Len(korean_transliteration_patterns) :
          korean_transliteration_patterns[n] # PatternKG
          => \A k \in 1..Len(korean_transliteration_patterns[n]) :
                IsHangul(korean_transliteration_patterns[n][k])
    /\ \A c \in 1..Len(is_english) :
          /\ is_english[c].verdict <=> KgOnlyContent(is_english[c].text)
          /\ DenylistReached(is_english[c].text)
             => \A n \in 1..Len(korean_transliteration_patterns) :
                   Contains(Lower(korean_transliteration_patterns[n]),
                            Lower(Strip(is_english[c].text)))
                   => Contains(PatternKG, Lower(Strip(is_english[c].text)))

\* a text of two words without Hangul was rejected for its '5KG', and
\* nothing else in it is a reason to reject it
C30_Witness ==
    \E c \in 1..Len(is_english) :
        /\ DenylistReached(is_english[c].text)
        /\ Len(Split(Strip(is_english[c].text))) >= 2
        /\ Contains(PatternKG, Lower(Strip(is_english[c].text)))
        /\ ~is_english[c].verdict

----------------------------------------------------------------------------
\* Properties of the label walk of the batch extractor

\* the label walk ran: the segmenter was there and an interval starts at or
\* after the anchor
LabelWalkOver == pc \in {"export", "done"} /\ walk_exit # "running"

\* the positions of the content intervals among the target intervals
ContentLabels ==
    {k \in 1..Len(target_segments) : target_segments[k].label \in content_labels}

\* the terminating intervals: after content has begun, a noEnergy interval
\* longer than 2.0 s or an interval with any other label
Terminating ==
    {k \in 1..Len(target_segments) :
        /\ ContentLabels # {}
        /\ k > Min(ContentLabels)
        /\ \/ /\ target_segments[k].label = "noEnergy"
              /\ target_segments[k].end - target_segments[k].start > 20
           \/ target_segments[k].label \notin content_labels \cup {"noEnergy"}}

\* where the walk stops
FirstTerminating ==
    IF Terminating = {} THEN Len(target_segments) + 1 ELSE Min(Terminating)

----------------------------------------------------------------------------
\* Properties of the calls on one ConversationExtractor

\* every call that exported a clip comes after a find_anchor_phrase that
\* returned an anchor, and that one after a transcribe_audio
ProtocolKept(log) ==
    \A n \in 1..Len(log) :
        log[n].exported # None
        => \E m \in 1..(n - 1) :
              /\ log[m].method = "find_anchor_phrase"
              /\ log[m].ret # None
              /\ \E l \in 1..(m - 1) : log[l].method = "transcribe_audio"

\* the call returned None, exported nothing and left the object as it was
Refused(call) ==
    /\ call.ret = None
    /\ call.exported = None
    /\ UNCHANGED <<self_transcription, anchor_end_time, extracted>>

\* C29: a clip is exported only after a find_anchor_phrase that returned an
\* anchor, itself after a transcribe_audio; find_anchor_phrase without a
\* transcription and the two extract methods without an anchor return None,
\* export nothing and change neither transcription nor anchor_end_time; a
\* find_anchor_phrase that returns None leaves anchor_end_time as it was.
C29_CallProtocol ==
    [][ calls' # calls
        => /\ ProtocolKept(calls')
           /\ LET call == calls'[Len(calls')]
              IN  /\ (call.method = "find_anchor_phrase" /\ self_transcription = None)
                     => Refused(call)
                  /\ (/\ call.method \in {"extract_segment_simple",
                                           "extract_segment_smart"}
                      /\ anchor_end_time = None)
                     => Refused(call)
                  /\ (call.method = "find_anchor_phrase" /\ call.ret = None)
                     => anchor_end_time' = anchor_end_time ]_vars

\* an anchor was found at 5.0 s, the audio was transcribed again without the
\* phrase, the next search returned None, and the clip exported after it
\* starts at 5.0 s
C29_Witness ==
    /\ Len(calls) = 5
    /\ calls[1].method = "transcribe_audio"
    /\ calls[2].method = "find_anchor_phrase"
    /\ calls[2].ret = Some(50)
    /\ calls[3].method = "transcribe_audio"
    /\ self_transcription = Some(ConvNoAnchor)
    /\ calls[4].method = "find_anchor_phrase"
    /\ calls[4].ret = None
    /\ calls[5].method = "extract_segment_smart"
    /\ calls[5].exported # None
    /\ calls[5].exported[1].start = 50
    /\ anchor_end_time = Some(50)

----------------------------------------------------------------------------
\* Properties of a run over a folder

\* every file has its entry, in the order of mp3_files
AllFilesReported ==
    /\ Len(results) = Len(mp3_files)
    /\ \A k \in 1..Len(results) :
          /\ results[k].file = k
          /\ results[k].success = (mp3_files[k] = "extracted")

\* C17: without inaSpeechSegmenter the program still processes every file
\* and does not crash.
C17_SegmenterUnavailable ==
    (pc = "done" /\ ~HAS_INA)
    => /\ outcome.raised = ""
       /\ AllFilesReported

\* C18: a folder run that starts attempts every file once, in order, and
\* reports one entry for each, whatever failed on the files before it.
C18_BatchContinuation ==
    (pc = "done" /\ ~(impl = "smart" /\ ~HAS_INA))
    => /\ outcome.raised = ""
       /\ AllFilesReported

====
